---- MODULE Spec2Model ----
(***************************************************************************)
(* Model of the Library aggregate of main.py: the catalog (books), the    *)
(* registered users with their borrowed maps, the transaction log, and    *)
(* the JSON snapshot written by save_to_file and read by load_from_file.  *)
(*                                                                         *)
(* A Python dict is modelled as the sequence of its items in insertion    *)
(* order, each item a record [k |-> key, v |-> value] with unique keys.   *)
(* Dates and timestamps are day numbers; ISO strings of dates compare as  *)
(* the day numbers do.                                                     *)
(***************************************************************************)
EXTENDS Integers, Sequences, FiniteSets, TLC

VARIABLES books, users, transactions, files, today, uuids, last, calls, recorded,
          added

vars == <<books, users, transactions, files, today, uuids, last, calls, recorded,
          added>>

(* ------------------------------ bounds -------------------------------- *)

\* Behaviours are explored up to MaxCalls calls of the store's operations.
MaxCalls == 6

Titles == {"Dune", "Foo"}
\* The (author, genre) pairs and the quantities add_book is called with.
Credits == {<<"Herbert", "SciFi">>, <<"Asimov", "Essay">>}
Quantities == {0, 1}
Names == {"Ann"}
Contacts == {"ann@x"}
UserIds == {"u1", "u2"}

(* ------------------------- program constants -------------------------- *)

DATA_FILE == "library_data.json"
Filenames == {DATA_FILE}
LoanDays == 14
PopularLimit == 10
Unknown == "Unknown"

Days == {0, LoanDays, LoanDays + 1}

None == "None"
NoDate == -1

(* --------------------------- Python dicts ----------------------------- *)

Keys(d) == {d[i].k : i \in DOMAIN d}

Has(d, key) == key \in Keys(d)

Get(d, key) == d[CHOOSE i \in DOMAIN d : d[i].k = key].v

Put(d, key, val) ==
    IF Has(d, key)
    THEN [i \in DOMAIN d |-> IF d[i].k = key THEN [k |-> key, v |-> val] ELSE d[i]]
    ELSE Append(d, [k |-> key, v |-> val])

Del(d, key) == SelectSeq(d, LAMBDA e : e.k # key)

Values(d) == [i \in DOMAIN d |-> d[i].v]

\* d.get(key, default) on an object read from JSON (a record).
Field(d, key, default) == IF key \in DOMAIN d THEN d[key] ELSE default

(* ------------------------------- Book --------------------------------- *)

Book(title, author, genre, quantity) ==
    [title |-> title, author |-> author, genre |-> genre,
     quantity |-> quantity, issued_count |-> 0]

Book_to_dict(b) ==
    [title |-> b.title, author |-> b.author, genre |-> b.genre,
     quantity |-> b.quantity, issued_count |-> b.issued_count]

\* Variant: the stored counter is not read back.
Book_from_dict_fresh(d) == Book(d.title, d.author, d.genre, d.quantity)

Book_from_dict(d) ==
    [Book(d.title, d.author, d.genre, d.quantity)
        EXCEPT !.issued_count = Field(d, "issued_count", 0)]

\* The keys Book.from_dict subscripts: a missing one raises KeyError.
BookKeys == {"title", "author", "genre", "quantity"}

(* ------------------------------- User --------------------------------- *)

User(id, name, contact) ==
    [id |-> id, name |-> name, contact |-> contact, borrowed |-> <<>>]

User_to_dict(u) ==
    [id |-> u.id, name |-> u.name, contact |-> u.contact, borrowed |-> u.borrowed]

\* The id drawn by the constructor is overwritten by the stored one.
User_from_dict(d) ==
    [User(None, d.name, d.contact)
        EXCEPT !.id = d.id, !.borrowed = Field(d, "borrowed", <<>>)]

\* The keys User.from_dict subscripts.
UserKeys == {"name", "contact", "id"}

(* ---------------------------- Transaction ----------------------------- *)

Transaction(user_id, book_title, action, date, now) ==
    [user_id |-> user_id, book_title |-> book_title, action |-> action,
     date |-> IF date = NoDate THEN now ELSE date]

Transaction_to_dict(t) ==
    [user_id |-> t.user_id, book_title |-> t.book_title,
     action |-> t.action, date |-> t.date]

Transaction_from_dict(d, now) ==
    Transaction(d.user_id, d.book_title, d.action, Field(d, "date", NoDate), now)

\* The keys Transaction.from_dict subscripts.
TransactionKeys == {"user_id", "book_title", "action"}

(* ------------------------------ Library ------------------------------- *)

Init ==
    /\ books = <<>>
    /\ users = <<>>
    /\ transactions = <<>>
    /\ files = <<>>
    /\ today = 0
    /\ uuids = {}
    /\ calls = 0
    /\ recorded = [t \in Titles |-> 0]
    /\ added = [t \in Titles |-> 0]
    /\ last = [op |-> "__init__", args |-> <<>>, ret |-> None, exc |-> None]

Ret(ok, msg) == [ok |-> ok, msg |-> msg]

\* The call just made, with its arguments and the value it returned.
Reply(op, args, ret) ==
    last' = [op |-> op, args |-> args, ret |-> ret, exc |-> None]

\* The call just made ended in an exception and returned nothing.
Raise(op, args, exc) ==
    last' = [op |-> op, args |-> args, ret |-> None, exc |-> exc]

\* Variant: restocking takes over the author and genre supplied.
Restock_overwrite(book, author, genre, quantity) ==
    [book EXCEPT !.quantity = @ + quantity, !.author = author, !.genre = genre]

Restock(book, author, genre, quantity) ==
    [book EXCEPT !.quantity = @ + quantity]

\* Variant: the quantity of a known title is replaced, not increased.
add_book_replace(title, author, genre, quantity) ==
    /\ books' = Put(books, title, Book(title, author, genre, quantity))
    /\ Reply("add_book", <<title, author, genre, quantity>>, None)
    /\ UNCHANGED <<users, transactions, files, today, uuids>>

add_book(title, author, genre, quantity) ==
    /\ IF Has(books, title)
       THEN books' = Put(books, title,
                Restock(Get(books, title), author, genre, quantity))
       ELSE books' = Put(books, title, Book(title, author, genre, quantity))
    /\ Reply("add_book", <<title, author, genre, quantity>>, None)
    /\ UNCHANGED <<users, transactions, files, today, uuids>>

\* Variant: the loans of the removed title are dropped with it.
remove_book_cascade(title) ==
    /\ IF Has(books, title)
       THEN /\ books' = Del(books, title)
            /\ Reply("remove_book", <<title>>, TRUE)
       ELSE /\ books' = books
            /\ Reply("remove_book", <<title>>, FALSE)
    /\ users' = [i \in DOMAIN users |->
                    [users[i] EXCEPT !.v.borrowed = Del(@, title)]]
    /\ UNCHANGED <<transactions, files, today, uuids>>

remove_book(title) ==
    /\ IF Has(books, title)
       THEN /\ books' = Del(books, title)
            /\ Reply("remove_book", <<title>>, TRUE)
       ELSE /\ books' = books
            /\ Reply("remove_book", <<title>>, FALSE)
    /\ UNCHANGED <<users, transactions, files, today, uuids>>

\* uuid.uuid4() draws an identifier that was never drawn before.
add_user(name, contact) ==
    \E id \in UserIds \ uuids :
        /\ uuids' = uuids \cup {id}
        /\ users' = Put(users, id, User(id, name, contact))
        /\ Reply("add_user", <<name, contact>>, id)
        /\ UNCHANGED <<books, transactions, files, today>>

\* Variant: a user with outstanding loans is kept.
remove_user_without_loans(user_id) ==
    /\ IF Has(users, user_id) /\ Len(Get(users, user_id).borrowed) = 0
       THEN /\ users' = Del(users, user_id)
            /\ Reply("remove_user", <<user_id>>, TRUE)
       ELSE /\ users' = users
            /\ Reply("remove_user", <<user_id>>, FALSE)
    /\ UNCHANGED <<books, transactions, files, today, uuids>>

remove_user(user_id) ==
    /\ IF Has(users, user_id)
       THEN /\ users' = Del(users, user_id)
            /\ Reply("remove_user", <<user_id>>, TRUE)
       ELSE /\ users' = users
            /\ Reply("remove_user", <<user_id>>, FALSE)
    /\ UNCHANGED <<books, transactions, files, today, uuids>>

\* Variant: the stock test lets a book with no copies through.
NoCopies_off_by_one(book) == book.quantity < 0

NoCopies(book) == book.quantity <= 0

\* Variant: the catalog is looked up before the user.
issue_check_book_first(us, bs, user_id, title) ==
    IF ~Has(bs, title) THEN "Book not found"
    ELSE IF ~Has(us, user_id) THEN "User not found"
    ELSE IF NoCopies(Get(bs, title)) THEN "No copies available"
    ELSE None

\* The early returns of issue_book, in the order of the code; None when
\* the call goes on to issue the book.
issue_check(us, bs, user_id, title) ==
    IF ~Has(us, user_id) THEN "User not found"
    ELSE IF ~Has(bs, title) THEN "Book not found"
    ELSE IF NoCopies(Get(bs, title)) THEN "No copies available"
    ELSE None

\* Variant: a title already borrowed keeps its first due date.
Borrow_keep_first(user, title, due) ==
    IF Has(user.borrowed, title) THEN user
    ELSE [user EXCEPT !.borrowed = Put(@, title, due)]

Borrow(user, title, due) == [user EXCEPT !.borrowed = Put(@, title, due)]

\* Variant: the issue is not counted.
Issued_uncounted(book) == [book EXCEPT !.quantity = @ - 1]

Issued(book) == [book EXCEPT !.quantity = @ - 1, !.issued_count = @ + 1]

\* Variant: the newest transaction is put first.
Logged_first(ts, t) == <<t>> \o ts

Logged(ts, t) == Append(ts, t)

\* Variant: the loan is entered on the user before the catalog is checked.
issue_book_eager(user_id, title) ==
    /\ LET err == issue_check(users, books, user_id, title)
           due == today + LoanDays
       IN  IF err # None
           THEN /\ Reply("issue_book", <<user_id, title>>, Ret(FALSE, err))
                /\ users' = IF Has(users, user_id)
                            THEN Put(users, user_id,
                                     Borrow(Get(users, user_id), title, due))
                            ELSE users
                /\ UNCHANGED <<books, transactions>>
           ELSE /\ users' = Put(users, user_id,
                       Borrow(Get(users, user_id), title, due))
                /\ books' = Put(books, title, Issued(Get(books, title)))
                /\ transactions' = Logged(transactions,
                       Transaction(user_id, title, "issue", NoDate, today))
                /\ Reply("issue_book", <<user_id, title>>,
                       [ok |-> TRUE, msg |-> "Issued. Due: ", due |-> due])
    /\ UNCHANGED <<files, today, uuids>>

issue_book(user_id, title) ==
    /\ LET err == issue_check(users, books, user_id, title)
       IN  IF err # None
           THEN /\ Reply("issue_book", <<user_id, title>>, Ret(FALSE, err))
                /\ UNCHANGED <<books, users, transactions>>
           ELSE LET due == today + LoanDays
                IN  /\ users' = Put(users, user_id,
                           Borrow(Get(users, user_id), title, due))
                    /\ books' = Put(books, title, Issued(Get(books, title)))
                    /\ transactions' = Logged(transactions,
                           Transaction(user_id, title, "issue", NoDate, today))
                    /\ Reply("issue_book", <<user_id, title>>,
                           [ok |-> TRUE, msg |-> "Issued. Due: ", due |-> due])
    /\ UNCHANGED <<files, today, uuids>>

\* Variant: a title missing from the catalog is refused.
return_check_catalog(us, bs, user_id, title) ==
    IF ~Has(us, user_id) THEN "User not found"
    ELSE IF ~Has(Get(us, user_id).borrowed, title)
         THEN "User did not borrow this book"
    ELSE IF ~Has(bs, title) THEN "Book not found"
    ELSE None

\* The early returns of return_book, in the order of the code.
return_check(us, bs, user_id, title) ==
    IF ~Has(us, user_id) THEN "User not found"
    ELSE IF ~Has(Get(us, user_id).borrowed, title)
         THEN "User did not borrow this book"
    ELSE None

\* Variant: the entry of the returned title stays in the borrowed map.
Unborrow_keep(user, title) == user

Unborrow(user, title) == [user EXCEPT !.borrowed = Del(@, title)]

\* Variant: a return takes the issue back out of the counter.
Returned_uncount(book) ==
    [book EXCEPT !.quantity = @ + 1, !.issued_count = @ - 1]

Returned(book) == [book EXCEPT !.quantity = @ + 1]

\* Variant: the record comes back with the credits of no book and no copy.
Recreated_empty(title) == Book(title, Unknown, Unknown, 0)

\* The record put back for a title that left the catalog while on loan.
Recreated(title) == Book(title, Unknown, Unknown, 1)

return_book(user_id, title) ==
    /\ LET err == return_check(users, books, user_id, title)
       IN  IF err # None
           THEN /\ Reply("return_book", <<user_id, title>>, Ret(FALSE, err))
                /\ UNCHANGED <<books, users, transactions>>
           ELSE /\ users' = Put(users, user_id,
                       Unborrow(Get(users, user_id), title))
                /\ IF Has(books, title)
                   THEN books' = Put(books, title, Returned(Get(books, title)))
                   ELSE books' = Put(books, title, Recreated(title))
                /\ transactions' = Logged(transactions,
                       Transaction(user_id, title, "return", NoDate, today))
                /\ Reply("return_book", <<user_id, title>>, Ret(TRUE, "Returned"))
    /\ UNCHANGED <<files, today, uuids>>

(* ------------------------------ report -------------------------------- *)

RECURSIVE SumQuantity(_)
SumQuantity(bs) ==
    IF bs = <<>> THEN 0 ELSE Head(bs).quantity + SumQuantity(Tail(bs))

RemoveAt(s, i) == SubSeq(s, 1, i - 1) \o SubSeq(s, i + 1, Len(s))

\* Variant: among equal keys the later element of the input comes first.
RECURSIVE SortedByIssued_ties_reversed(_)
SortedByIssued_ties_reversed(bs) ==
    IF bs = <<>> THEN <<>>
    ELSE LET i == CHOOSE j \in DOMAIN bs :
                    /\ \A m \in DOMAIN bs : bs[m].issued_count <= bs[j].issued_count
                    /\ \A m \in (j + 1)..Len(bs) :
                           bs[m].issued_count < bs[j].issued_count
         IN  <<bs[i]>> \o SortedByIssued_ties_reversed(RemoveAt(bs, i))

\* sorted(..., key=issued_count, reverse=True): stable, so among equal
\* keys the earlier element of the input comes first.
RECURSIVE SortedByIssued(_)
SortedByIssued(bs) ==
    IF bs = <<>> THEN <<>>
    ELSE LET i == CHOOSE j \in DOMAIN bs :
                    /\ \A m \in DOMAIN bs : bs[m].issued_count <= bs[j].issued_count
                    /\ \A m \in 1..(j - 1) : bs[m].issued_count < bs[j].issued_count
         IN  <<bs[i]>> \o SortedByIssued(RemoveAt(bs, i))

Take(s, n) == SubSeq(s, 1, IF Len(s) < n THEN Len(s) ELSE n)

\* Variant: a loan due today counts as overdue.
OverdueOf_inclusive(u, now) ==
    LET late == SelectSeq(u.borrowed, LAMBDA e : e.v <= now)
    IN  [i \in DOMAIN late |->
            [user_id |-> u.id, name |-> u.name, book |-> late[i].k, due |-> late[i].v]]

OverdueOf(u, now) ==
    LET late == SelectSeq(u.borrowed, LAMBDA e : e.v < now)
    IN  [i \in DOMAIN late |->
            [user_id |-> u.id, name |-> u.name, book |-> late[i].k, due |-> late[i].v]]

RECURSIVE Overdue(_, _)
Overdue(us, now) ==
    IF us = <<>> THEN <<>>
    ELSE OverdueOf(Head(us), now) \o Overdue(Tail(us), now)

Report(bs, us, now) ==
    [total_books |-> SumQuantity(Values(bs)),
     unique_titles |-> Len(bs),
     total_users |-> Len(us),
     popular |-> LET top == Take(SortedByIssued(Values(bs)), PopularLimit)
                 IN  [i \in DOMAIN top |-> Book_to_dict(top[i])],
     overdue |-> Overdue(Values(us), now)]

generate_report ==
    /\ Reply("generate_report", <<>>, Report(books, users, today))
    /\ UNCHANGED <<books, users, transactions, files, today, uuids>>

(* ---------------------------- persistence ----------------------------- *)

Snapshot(bs, us, ts) ==
    [books |-> [i \in DOMAIN bs |->
                   [k |-> bs[i].k, v |-> Book_to_dict(bs[i].v)]],
     users |-> [i \in DOMAIN us |->
                   [k |-> us[i].k, v |-> User_to_dict(us[i].v)]],
     transactions |-> [i \in DOMAIN ts |-> Transaction_to_dict(ts[i])]]

LoadedBooks(data) ==
    LET section == Field(data, "books", <<>>)
    IN  [i \in DOMAIN section |->
            [k |-> section[i].k, v |-> Book_from_dict(section[i].v)]]

LoadedUsers(data) ==
    LET section == Field(data, "users", <<>>)
    IN  [i \in DOMAIN section |->
            [k |-> section[i].k, v |-> User_from_dict(section[i].v)]]

LoadedTransactions(data, now) ==
    LET section == Field(data, "transactions", <<>>)
    IN  [i \in DOMAIN section |-> Transaction_from_dict(section[i], now)]

\* Whether each comprehension of load_from_file runs without a KeyError.
BooksParse(data) ==
    LET section == Field(data, "books", <<>>)
    IN  \A i \in DOMAIN section : BookKeys \subseteq DOMAIN section[i].v

UsersParse(data) ==
    LET section == Field(data, "users", <<>>)
    IN  \A i \in DOMAIN section : UserKeys \subseteq DOMAIN section[i].v

TransactionsParse(data) ==
    LET section == Field(data, "transactions", <<>>)
    IN  \A i \in DOMAIN section : TransactionKeys \subseteq DOMAIN section[i]

save_to_file(filename) ==
    /\ files' = Put(files, filename, Snapshot(books, users, transactions))
    /\ Reply("save_to_file", <<filename>>, TRUE)
    /\ UNCHANGED <<books, users, transactions, today, uuids>>

\* The three assignments happen in the order books, users, transactions;
\* only FileNotFoundError is caught, so a KeyError leaves the method after
\* the assignments that came before it.
load_data(filename, data) ==
    IF ~BooksParse(data)
    THEN /\ Raise("load_from_file", <<filename>>, "KeyError")
         /\ UNCHANGED <<books, users, transactions>>
    ELSE IF ~UsersParse(data)
    THEN /\ books' = LoadedBooks(data)
         /\ Raise("load_from_file", <<filename>>, "KeyError")
         /\ UNCHANGED <<users, transactions>>
    ELSE IF ~TransactionsParse(data)
    THEN /\ books' = LoadedBooks(data)
         /\ users' = LoadedUsers(data)
         /\ Raise("load_from_file", <<filename>>, "KeyError")
         /\ UNCHANGED transactions
    ELSE /\ books' = LoadedBooks(data)
         /\ users' = LoadedUsers(data)
         /\ transactions' = LoadedTransactions(data, today)
         /\ Reply("load_from_file", <<filename>>, TRUE)

\* Variant: a missing file empties the store.
load_from_file_reset(filename) ==
    /\ IF ~Has(files, filename)
       THEN /\ Reply("load_from_file", <<filename>>, FALSE)
            /\ books' = <<>>
            /\ users' = <<>>
            /\ transactions' = <<>>
       ELSE load_data(filename, Get(files, filename))
    /\ UNCHANGED <<files, today, uuids>>

load_from_file(filename) ==
    /\ IF ~Has(files, filename)
       THEN /\ Reply("load_from_file", <<filename>>, FALSE)
            /\ UNCHANGED <<books, users, transactions>>
       ELSE load_data(filename, Get(files, filename))
    /\ UNCHANGED <<files, today, uuids>>

(* ------------------------------ the file ------------------------------ *)

Without(d, key) == [f \in DOMAIN d \ {key} |-> d[f]]

\* The snapshot with one key taken out of every entry of one section.
Damaged(data, section) ==
    IF section = "books"
    THEN [data EXCEPT !.books =
             [i \in DOMAIN @ |-> [k |-> @[i].k, v |-> Without(@[i].v, "author")]]]
    ELSE IF section = "users"
    THEN [data EXCEPT !.users =
             [i \in DOMAIN @ |-> [k |-> @[i].k, v |-> Without(@[i].v, "name")]]]
    ELSE [data EXCEPT !.transactions =
             [i \in DOMAIN @ |-> Without(@[i], "action")]]

Sections == {"books", "users", "transactions"}

\* The snapshot file is edited outside the program.
edit_file(filename, section) ==
    /\ Has(files, filename)
    /\ Get(files, filename)[section] # <<>>
    /\ files' = Put(files, filename, Damaged(Get(files, filename), section))
    /\ Reply("edit_file", <<filename, section>>, None)
    /\ UNCHANGED <<books, users, transactions, today, uuids>>

(* -------------------------------- clock ------------------------------- *)

\* datetime.utcnow() moves forward between calls.
Tick ==
    /\ \E d \in Days : d > today /\ today' = d
    /\ Reply("utcnow", <<>>, None)
    /\ UNCHANGED <<books, users, transactions, files, uuids>>

(* ------------------------------ behaviour ----------------------------- *)

\* One call of an operation. recorded and added are history variables: for
\* each title the issued_count its catalog record showed last (0 before any
\* record), and the sum of the quantities add_book was called with.
Call(op) ==
    /\ calls < MaxCalls
    /\ calls' = calls + 1
    /\ op
    /\ recorded' = [t \in Titles |->
           IF Has(books', t) THEN Get(books', t).issued_count ELSE recorded[t]]
    /\ added' = IF last'.op = "add_book"
                THEN [added EXCEPT ![last'.args[1]] = @ + last'.args[4]]
                ELSE added

Next ==
    \/ \E t \in Titles, c \in Credits, q \in Quantities :
           Call(add_book(t, c[1], c[2], q))
    \/ \E t \in Titles : Call(remove_book(t))
    \/ \E n \in Names, c \in Contacts : Call(add_user(n, c))
    \/ \E u \in UserIds : Call(remove_user(u))
    \/ \E u \in UserIds, t \in Titles : Call(issue_book(u, t))
    \/ \E u \in UserIds, t \in Titles : Call(return_book(u, t))
    \/ Call(generate_report)
    \/ \E f \in Filenames : Call(save_to_file(f))
    \/ \E f \in Filenames : Call(load_from_file(f))
    \/ Call(Tick)

Spec == Init /\ [][Next]_vars

\* The same store with a snapshot file that may be edited between calls.
NextEdited ==
    \/ Next
    \/ \E f \in Filenames, sec \in Sections : Call(edit_file(f, sec))

SpecEdited == Init /\ [][NextEdited]_vars

TypeOK ==
    /\ \A i \in DOMAIN books : books[i].k \in Titles /\ books[i].v.title = books[i].k
    /\ \A i \in DOMAIN users : users[i].k \in UserIds /\ users[i].v.id = users[i].k
    /\ calls \in 0..MaxCalls
    /\ today \in Days

\* The store used through add_book, add_user, issue_book and return_book only.
NextCore ==
    \/ \E t \in Titles, c \in Credits, q \in Quantities :
           Call(add_book(t, c[1], c[2], q))
    \/ \E n \in Names, c \in Contacts : Call(add_user(n, c))
    \/ \E u \in UserIds, t \in Titles : Call(issue_book(u, t))
    \/ \E u \in UserIds, t \in Titles : Call(return_book(u, t))

SpecCore == Init /\ [][NextCore]_vars

(* ------------------------- a larger catalog --------------------------- *)

\* The report over catalogs of up to PopularLimit + 1 titles. Each catalog is
\* the state after every title was added with one copy and one user issued
\* and returned it as many times as its issued_count says.
ManyTitles ==
    <<"T01", "T02", "T03", "T04", "T05", "T06", "T07", "T08", "T09", "T10",
      "T11">>

\* Three issued_counts in the catalogs of up to 8 titles, two in the larger.
IssuedCounts(n) == IF n <= Len(ManyTitles) - 3 THEN {0, 1, 2} ELSE {0, 1}

Rounds(user_id, title, n) ==
    [j \in 1..(2 * n) |->
        Transaction(user_id, title, IF j % 2 = 1 THEN "issue" ELSE "return",
                    NoDate, 0)]

RECURSIVE LoanHistory(_, _, _)
LoanHistory(user_id, counts, i) ==
    IF i > Len(counts) THEN <<>>
    ELSE Rounds(user_id, ManyTitles[i], counts[i])
             \o LoanHistory(user_id, counts, i + 1)

InitPopular ==
    \E n \in 0..Len(ManyTitles) : \E counts \in [1..n -> IssuedCounts(n)] :
        /\ books = [i \in 1..n |->
               [k |-> ManyTitles[i],
                v |-> [Book(ManyTitles[i], "Herbert", "SciFi", 1)
                          EXCEPT !.issued_count = counts[i]]]]
        /\ users = <<[k |-> "u1", v |-> User("u1", "Ann", "ann@x")]>>
        /\ transactions = LoanHistory("u1", counts, 1)
        /\ files = <<>>
        /\ today = 0
        /\ uuids = {"u1"}
        /\ calls = 0
        /\ recorded = [t \in Titles |-> 0]
        /\ added = [t \in Titles |-> 0]
        /\ last = [op |-> "__init__", args |-> <<>>, ret |-> None, exc |-> None]

\* One report per catalog.
NextPopular == calls = 0 /\ Call(generate_report)

SpecPopular == InitPopular /\ [][NextPopular]_vars

(* ------------------------------ properties ---------------------------- *)

SuccessfulIssue(l) == l.op = "issue_book" /\ l.ret.ok

SuccessfulReturn(l) == l.op = "return_book" /\ l.ret.ok

SuccessfulLoad(l) == l.op = "load_from_file" /\ l.exc = None /\ l.ret

CountTx(ts, user_id, title, action) ==
    Cardinality({i \in DOMAIN ts : /\ ts[i].user_id = user_id
                                   /\ ts[i].book_title = title
                                   /\ ts[i].action = action})

IsPrefix(s, t) == Len(s) <= Len(t) /\ SubSeq(t, 1, Len(s)) = s

\* C1: in every state reached from the empty store by add_book (with a
\* non-negative quantity), remove_book, add_user, remove_user, issue_book,
\* return_book, save and load of a saved snapshot, every catalog record has
\* quantity >= 0.
C1_QuantityNonNegative ==
    \A i \in DOMAIN books : books[i].v.quantity >= 0

\* The last copy of a title has just been issued.
C1_Witness ==
    /\ SuccessfulIssue(last)
    /\ Get(books, last.args[2]).quantity = 0

\* C2: for every user in the store and every title, the title is a key of
\* the user's borrowed map iff the log holds more issue transactions than
\* return transactions for that (user, title) pair.
C2_BorrowedIffUnmatchedIssue ==
    \A i \in DOMAIN users : \A t \in Titles :
        Has(users[i].v.borrowed, t) <=>
            CountTx(transactions, users[i].k, t, "issue")
                > CountTx(transactions, users[i].k, t, "return")

\* C3 as stated: the issued_count recorded for a title never decreases from
\* one state to the next, also across remove_book followed by add_book or
\* return_book, and changes only by a successful issue_book of that title,
\* which raises it by exactly 1.
C3_IssuedCountOnlyByIssue ==
    [][\A t \in Titles :
          Has(books', t) =>
              IF SuccessfulIssue(last') /\ last'.args[2] = t
              THEN Get(books', t).issued_count = recorded[t] + 1
              ELSE Get(books', t).issued_count = recorded[t]]_vars

LoadOfFile(l, fs) == l.op = "load_from_file" /\ Has(fs, l.args[1])

\* C3 amended: in every step other than a load that finds a snapshot file,
\* a title that stays in the catalog changes its issued_count only by a
\* successful issue_book of that title, by exactly +1, and a title that
\* enters the catalog (add_book or return_book after remove_book) starts
\* again at 0.
C3_IssuedCountWhileInCatalog ==
    [][~LoadOfFile(last', files) =>
          \A t \in Titles :
              /\ (Has(books, t) /\ Has(books', t)) =>
                     IF SuccessfulIssue(last') /\ last'.args[2] = t
                     THEN Get(books', t).issued_count
                              = Get(books, t).issued_count + 1
                     ELSE Get(books', t).issued_count
                              = Get(books, t).issued_count
              /\ (~Has(books, t) /\ Has(books', t)) =>
                     Get(books', t).issued_count = 0]_vars

\* A title that had been issued was removed, and its return has just
\* recreated the record with issued_count 0.
C3_Witness ==
    /\ SuccessfulReturn(last)
    /\ Get(books, last.args[2]).issued_count = 0
    /\ Get(books, last.args[2]).author = Unknown

\* C4 as stated: in every step of every operation, load included, the log
\* before the step is a prefix of the log after it.
C4_LogAppendOnly ==
    [][IsPrefix(transactions, transactions')]_vars

\* C4 amended: in every step of every operation other than a successful
\* load the log before the step is a prefix of the log after it; a
\* successful load replaces the log by the transactions of the snapshot.
C4_LogAppendOnlyExceptLoad ==
    [][IF SuccessfulLoad(last')
       THEN transactions' = Get(files, last'.args[1]).transactions
       ELSE IsPrefix(transactions, transactions')]_vars

\* A second transaction has just been appended to a non-empty log.
C4_Witness ==
    /\ SuccessfulReturn(last)
    /\ Len(transactions) >= 2
    /\ transactions[Len(transactions)].action = "return"

OtherBooksSame(title) ==
    \A t \in Titles \ {title} :
        /\ Has(books', t) <=> Has(books, t)
        /\ Has(books, t) => Get(books', t) = Get(books, t)

OtherUsersSame(user_id) ==
    \A u \in UserIds \ {user_id} :
        /\ Has(users', u) <=> Has(users, u)
        /\ Has(users, u) => Get(users', u) = Get(users, u)

LastTx(ts) == ts[Len(ts)]

AppendsOne(user_id, title, action) ==
    /\ Len(transactions') = Len(transactions) + 1
    /\ IsPrefix(transactions, transactions')
    /\ LastTx(transactions').user_id = user_id
    /\ LastTx(transactions').book_title = title
    /\ LastTx(transactions').action = action

Fails(l, msg) == ~l.ret.ok /\ l.ret.msg = msg

\* C5: issue_book reports the first failing precondition in the order user,
\* book, copies: "User not found" when the user is absent whatever the book,
\* else "Book not found" when the title is not in the catalog, else "No
\* copies available" when the quantity is 0, and it succeeds in every other
\* state; so once the last copy is out every further issue of the title
\* fails with "No copies available" while its quantity stays 0.
C5_IssueOutcome ==
    [][last'.op = "issue_book" =>
          LET u == last'.args[1]
              t == last'.args[2]
          IN  IF ~Has(users, u) THEN Fails(last', "User not found")
              ELSE IF ~Has(books, t) THEN Fails(last', "Book not found")
              ELSE IF Get(books, t).quantity = 0
                   THEN Fails(last', "No copies available")
              ELSE last'.ret.ok]_vars

\* An issue has just failed for lack of copies on a title whose copies
\* were issued before.
C5_Witness ==
    /\ last.op = "issue_book"
    /\ Fails(last, "No copies available")
    /\ Get(books, last.args[2]).issued_count > 0

IssueMustFail(u, t) ==
    \/ ~Has(users, u)
    \/ ~Has(books, t)
    \/ Get(books, t).quantity = 0

ReturnMustFail(u, t) ==
    \/ ~Has(users, u)
    \/ ~Has(Get(users, u).borrowed, t)

FailureMessages ==
    {"User not found", "Book not found", "No copies available",
     "User did not borrow this book"}

\* C6: every failed issue_book or return_book call returns a failure value
\* (success flag false and one of the four messages) and leaves all book
\* records, all users with their borrowed maps and the log as they were.
C6_FailedCallsChangeNothing ==
    [][last'.op \in {"issue_book", "return_book"} =>
          LET u == last'.args[1]
              t == last'.args[2]
              mustFail == IF last'.op = "issue_book"
                          THEN IssueMustFail(u, t) ELSE ReturnMustFail(u, t)
          IN  (mustFail \/ ~last'.ret.ok) =>
                  /\ ~last'.ret.ok
                  /\ last'.ret.msg \in FailureMessages
                  /\ books' = books
                  /\ users' = users
                  /\ transactions' = transactions]_vars

\* A return has just been refused for a user who holds another loan.
C6_Witness ==
    /\ last.op = "return_book"
    /\ Fails(last, "User did not borrow this book")
    /\ Get(users, last.args[1]).borrowed # <<>>
    /\ transactions # <<>>

\* C7: return_book fails with "User not found" when the user is absent,
\* else with "User did not borrow this book" when the title is not a key of
\* the user's borrowed map, and succeeds in every other state, also when
\* the title is no longer in the catalog.
C7_ReturnOutcome ==
    [][last'.op = "return_book" =>
          LET u == last'.args[1]
              t == last'.args[2]
          IN  IF ~Has(users, u) THEN Fails(last', "User not found")
              ELSE IF ~Has(Get(users, u).borrowed, t)
                   THEN Fails(last', "User did not borrow this book")
              ELSE last'.ret.ok /\ last'.ret.msg = "Returned"]_vars

\* A return has just succeeded on a title that was not in the catalog.
C7_Witness ==
    /\ SuccessfulReturn(last)
    /\ Get(books, last.args[2]).genre = Unknown
    /\ Get(books, last.args[2]).quantity = 1
    /\ ~Has(Get(users, last.args[1]).borrowed, last.args[2])

\* C8: a successful issue_book(u, t) lowers the quantity of t by 1, raises
\* its issued_count by 1 and appends one issue transaction for (u, t); a
\* successful return_book(u, t) on a title in the catalog raises its
\* quantity by 1, keeps its issued_count and appends one return transaction
\* for (u, t); neither changes another book or another user.
C8_IssueReturnEffects ==
    [][/\ SuccessfulIssue(last') =>
             LET u == last'.args[1]
                 t == last'.args[2]
             IN  /\ Get(books', t).quantity = Get(books, t).quantity - 1
                 /\ Get(books', t).issued_count = Get(books, t).issued_count + 1
                 /\ AppendsOne(u, t, "issue")
                 /\ OtherBooksSame(t)
                 /\ OtherUsersSame(u)
       /\ SuccessfulReturn(last') =>
             LET u == last'.args[1]
                 t == last'.args[2]
             IN  /\ Has(books, t) =>
                        /\ Get(books', t).quantity = Get(books, t).quantity + 1
                        /\ Get(books', t).issued_count = Get(books, t).issued_count
                 /\ AppendsOne(u, t, "return")
                 /\ OtherBooksSame(t)
                 /\ OtherUsersSame(u)]_vars

\* A book has just been issued from a catalog of two titles while the
\* other user holds a loan.
C8_Witness ==
    /\ SuccessfulIssue(last)
    /\ Len(books) = 2
    /\ Len(users) = 2
    /\ \E i \in DOMAIN users :
           users[i].k # last.args[1] /\ users[i].v.borrowed # <<>>

\* C9: add_book on a new title creates a record with the quantity given and
\* issued_count 0; on a title in the catalog it adds the quantity and keeps
\* the record's author, genre and issued_count whatever author and genre
\* are supplied; no other book, no user and no transaction changes.
C9_AddBookEffects ==
    [][last'.op = "add_book" =>
          LET t == last'.args[1]
              q == last'.args[4]
          IN  /\ Has(books', t)
              /\ IF Has(books, t)
                 THEN Get(books', t)
                          = [Get(books, t) EXCEPT !.quantity = @ + q]
                 ELSE /\ Get(books', t).quantity = q
                      /\ Get(books', t).issued_count = 0
              /\ OtherBooksSame(t)
              /\ users' = users
              /\ transactions' = transactions]_vars

\* Copies have just been added to an issued title under another author.
C9_Witness ==
    /\ last.op = "add_book"
    /\ last.args[4] > 0
    /\ Get(books, last.args[1]).author # last.args[2]
    /\ Get(books, last.args[1]).genre # last.args[3]
    /\ Get(books, last.args[1]).issued_count > 0

\* C10: for every state S the store reaches, the snapshot a save writes
\* loads back, at any later time, as books, users (ids and borrowed maps
\* included) and an ordered transaction list equal to those of S, and a
\* load puts exactly what the snapshot loads as into the store, whatever
\* the store held.
C10_SaveLoadRoundTrip ==
    [][/\ last'.op = "save_to_file" =>
             LET data == Get(files', last'.args[1])
             IN  /\ LoadedBooks(data) = books
                 /\ LoadedUsers(data) = users
                 /\ \A now \in Days :
                        LoadedTransactions(data, now) = transactions
       /\ SuccessfulLoad(last') =>
             LET data == Get(files, last'.args[1])
             IN  /\ books' = LoadedBooks(data)
                 /\ users' = LoadedUsers(data)
                 /\ \E now \in Days :
                        transactions' = LoadedTransactions(data, now)]_vars

\* A snapshot with a book, a loan and a transaction has just been loaded.
C10_Witness ==
    /\ SuccessfulLoad(last)
    /\ books # <<>>
    /\ transactions # <<>>
    /\ \E i \in DOMAIN users : users[i].v.borrowed # <<>>

\* C11: a load from a destination that does not exist returns False
\* without raising and leaves books, users and transactions as they were.
C11_LoadMissingFile ==
    [][(last'.op = "load_from_file" /\ ~Has(files, last'.args[1])) =>
          /\ last'.exc = None
          /\ last'.ret = FALSE
          /\ books' = books
          /\ users' = users
          /\ transactions' = transactions]_vars

\* A load has just found no file while the store held a book, a user with
\* a loan and a transaction.
C11_Witness ==
    /\ last.op = "load_from_file"
    /\ last.exc = None
    /\ last.ret = FALSE
    /\ books # <<>>
    /\ transactions # <<>>
    /\ \E i \in DOMAIN users : users[i].v.borrowed # <<>>

\* C12: when a title was removed from the catalog while a user held it, a
\* successful return_book of it by that user recreates the record with
\* quantity 1, author and genre "Unknown" and issued_count 0, removes the
\* borrowed entry and appends a return transaction.
C12_ReturnRecreatesBook ==
    [][(SuccessfulReturn(last') /\ ~Has(books, last'.args[2])) =>
          LET u == last'.args[1]
              t == last'.args[2]
          IN  /\ Has(books', t)
              /\ Get(books', t).title = t
              /\ Get(books', t).quantity = 1
              /\ Get(books', t).author = "Unknown"
              /\ Get(books', t).genre = "Unknown"
              /\ Get(books', t).issued_count = 0
              /\ ~Has(Get(users', u).borrowed, t)
              /\ AppendsOne(u, t, "return")]_vars

\* The return of a removed title has just put it at the end of a catalog
\* that holds another title.
C12_Witness ==
    /\ SuccessfulReturn(last)
    /\ Len(books) = 2
    /\ books[2].k = last.args[2]
    /\ books[2].v.author = Unknown
    /\ LastTx(transactions).action = "return"

\* C13: the overdue list of generate_report holds a record for a (user,
\* title) pair iff the user is in the store, the title is a key of the
\* user's borrowed map and its due date is strictly before the current
\* date (a loan due today is not listed); the report changes nothing.
C13_OverdueExactly ==
    [][last'.op = "generate_report" =>
          /\ \A u \in UserIds, t \in Titles :
                 (\E i \in DOMAIN last'.ret.overdue :
                      /\ last'.ret.overdue[i].user_id = u
                      /\ last'.ret.overdue[i].book = t)
                 <=> /\ Has(users, u)
                     /\ Has(Get(users, u).borrowed, t)
                     /\ Get(Get(users, u).borrowed, t) < today
          /\ books' = books
          /\ users' = users
          /\ transactions' = transactions
          /\ files' = files]_vars

\* A report has just listed a loan that fell due the day before.
C13_Witness ==
    /\ last.op = "generate_report"
    /\ last.ret.overdue # <<>>
    /\ last.ret.overdue[1].due = today - 1

\* A report has just left out a loan that is due on the day of the report.
C13_DueTodayReached ==
    /\ last.op = "generate_report"
    /\ last.ret.overdue = <<>>
    /\ \E i \in DOMAIN users :
           \E j \in DOMAIN users[i].v.borrowed :
               users[i].v.borrowed[j].v = today

Position(bs, title) == CHOOSE i \in DOMAIN bs : bs[i].k = title

\* C14: the popular list of generate_report has min(10, number of catalog
\* records) entries, each a catalog record, ordered by issued_count
\* descending with ties in catalog insertion order, and no record left out
\* has a larger issued_count than one that is in it.
C14_PopularOrder ==
    last.op = "generate_report" =>
        LET pop == last.ret.popular
        IN  /\ Len(pop) = IF Len(books) < 10 THEN Len(books) ELSE 10
            /\ \A i \in DOMAIN pop :
                   /\ Has(books, pop[i].title)
                   /\ pop[i] = Book_to_dict(Get(books, pop[i].title))
            /\ \A i, j \in DOMAIN pop :
                   i < j =>
                       \/ pop[i].issued_count > pop[j].issued_count
                       \/ /\ pop[i].issued_count = pop[j].issued_count
                          /\ Position(books, pop[i].title)
                                 < Position(books, pop[j].title)
            /\ \A b \in DOMAIN books :
                   (\A i \in DOMAIN pop : pop[i].title # books[b].k) =>
                       \A i \in DOMAIN pop :
                           books[b].v.issued_count <= pop[i].issued_count

\* A report over eleven titles has just put the title added last first
\* and left out one of the others.
C14_Witness ==
    /\ last.op = "generate_report"
    /\ Len(books) = 11
    /\ Len(last.ret.popular) = 10
    /\ last.ret.popular[1].title = books[11].k
    /\ last.ret.popular[2].issued_count = last.ret.popular[3].issued_count

\* C15: load is all-or-nothing: after any load_from_file call, returning or
\* raising, either books, users and transactions all equal the contents of
\* the snapshot or all three are what they were before the call.
C15_LoadAllOrNothing ==
    [][last'.op = "load_from_file" =>
          \/ /\ books' = books
             /\ users' = users
             /\ transactions' = transactions
          \/ /\ Has(files, last'.args[1])
             /\ BooksParse(Get(files, last'.args[1]))
             /\ UsersParse(Get(files, last'.args[1]))
             /\ TransactionsParse(Get(files, last'.args[1]))
             /\ books' = LoadedBooks(Get(files, last'.args[1]))
             /\ users' = LoadedUsers(Get(files, last'.args[1]))
             /\ transactions'
                    = LoadedTransactions(Get(files, last'.args[1]), today)]_vars

Outstanding(ts, user_id, title) ==
    CountTx(ts, user_id, title, "issue") - CountTx(ts, user_id, title, "return")

\* C16: issue_book(u, t) called while t is already a key of u's borrowed
\* map and the quantity of t is > 0 succeeds: quantity - 1, issued_count
\* + 1, one issue transaction appended, and the borrowed map keeps its keys
\* with the single entry for t now due 14 days from today; the log then
\* shows at least two copies out for (u, t) against that one entry, and a
\* successful return removes the entry, so u returns t only once.
C16_ReissueOverwrites ==
    [][/\ (/\ last'.op = "issue_book"
           /\ Has(users, last'.args[1])
           /\ Has(Get(users, last'.args[1]).borrowed, last'.args[2])
           /\ Has(books, last'.args[2])
           /\ Get(books, last'.args[2]).quantity > 0) =>
             LET u == last'.args[1]
                 t == last'.args[2]
                 before == Get(users, u).borrowed
                 after == Get(users', u).borrowed
             IN  /\ last'.ret.ok
                 /\ Get(books', t).quantity = Get(books, t).quantity - 1
                 /\ Get(books', t).issued_count = Get(books, t).issued_count + 1
                 /\ AppendsOne(u, t, "issue")
                 /\ Len(after) = Len(before)
                 /\ \A i \in DOMAIN before :
                        /\ after[i].k = before[i].k
                        /\ after[i].v = IF before[i].k = t
                                        THEN today + 14 ELSE before[i].v
                 /\ Outstanding(transactions', u, t) >= 2
       /\ SuccessfulReturn(last') =>
             ~Has(Get(users', last'.args[1]).borrowed, last'.args[2])]_vars

\* A user who held a title has just been issued it again on a later day.
C16_Witness ==
    /\ SuccessfulIssue(last)
    /\ CountTx(transactions, last.args[1], last.args[2], "issue") = 2
    /\ CountTx(transactions, last.args[1], last.args[2], "return") = 0
    /\ Len(Get(users, last.args[1]).borrowed) = 1
    /\ transactions[1].date < today
    /\ last.ret.due = today + LoanDays

\* C17: remove_user(id) on a present user returns found and deletes the
\* record whatever loans are outstanding, with every book record, every
\* other user and the log unchanged; an identifier that was handed out and
\* is absent stays absent across every step other than a load that finds a
\* snapshot file; and return_book(id, t) for an absent id fails with "User
\* not found" for every title and restores no quantity.
C17_RemovedUserCannotReturn ==
    [][/\ (last'.op = "remove_user" /\ Has(users, last'.args[1])) =>
             /\ last'.ret = TRUE
             /\ ~Has(users', last'.args[1])
             /\ OtherUsersSame(last'.args[1])
             /\ books' = books
             /\ transactions' = transactions
       /\ ~LoadOfFile(last', files) =>
             \A id \in uuids : ~Has(users, id) => ~Has(users', id)
       /\ (last'.op = "return_book" /\ ~Has(users, last'.args[1])) =>
             /\ Fails(last', "User not found")
             /\ books' = books
             /\ users' = users
             /\ transactions' = transactions]_vars

\* A removed user who still had a copy out has just tried to return it.
C17_Witness ==
    /\ last.op = "return_book"
    /\ Fails(last, "User not found")
    /\ last.args[1] \in uuids
    /\ Outstanding(transactions, last.args[1], last.args[2]) = 1
    /\ Has(books, last.args[2])
    /\ Get(books, last.args[2]).quantity = 0

\* C18: remove_book(title) returns found and deletes exactly the record of
\* that title when it is in the catalog, and returns not-found and changes
\* nothing otherwise; in both cases every user with the borrowed map (entries
\* for that title included), every other book record and the log are
\* unchanged.
C18_RemoveBookFrame ==
    [][last'.op = "remove_book" =>
          LET t == last'.args[1]
          IN  /\ IF Has(books, t)
                 THEN last'.ret = TRUE /\ books' = Del(books, t)
                 ELSE last'.ret = FALSE /\ books' = books
              /\ ~Has(books', t)
              /\ OtherBooksSame(t)
              /\ users' = users
              /\ transactions' = transactions]_vars

\* A title has just been removed while a user holds a copy of it.
C18_Witness ==
    /\ last.op = "remove_book"
    /\ last.ret = TRUE
    /\ \E u \in UserIds :
           Has(users, u) /\ Has(Get(users, u).borrowed, last.args[1])
    /\ \E t \in Titles : Has(books, t)

CountTitle(ts, title, action) ==
    Cardinality({i \in DOMAIN ts :
        ts[i].book_title = title /\ ts[i].action = action})

\* C19: in every state reached from the empty store through add_book,
\* add_user, issue_book and return_book only, for every title in the catalog
\* the quantity plus the number of issue transactions of the title minus the
\* number of its return transactions equals the sum of the quantities passed
\* to add_book for it, also when one user is issued the title twice.
C19_CopyConservation ==
    \A t \in Titles :
        Has(books, t) =>
            Get(books, t).quantity + CountTitle(transactions, t, "issue")
                - CountTitle(transactions, t, "return") = added[t]

\* One user has been issued the same title twice and has returned it once.
C19_Witness ==
    \E u \in UserIds, t \in Titles :
        /\ CountTx(transactions, u, t, "issue") = 2
        /\ CountTx(transactions, u, t, "return") = 1
        /\ added[t] = 2
        /\ Get(books, t).quantity = 1

\* Transaction i of the log is of the given (user, title) pair.
OfPair(ts, i, user_id, title) ==
    ts[i].user_id = user_id /\ ts[i].book_title = title

\* Transaction i is the most recent one of the pair before position n, and
\* it is an issue.
LastIsIssue(ts, i, n, user_id, title) ==
    /\ OfPair(ts, i, user_id, title)
    /\ ts[i].action = "issue"
    /\ \A j \in (i + 1)..(n - 1) : ~OfPair(ts, j, user_id, title)

\* C20: with loads of snapshots the store saved itself and identifiers never
\* reused, for every user in the store and every title, the title is a key of
\* the user's borrowed map exactly when the log has a transaction for the
\* pair and the most recent one is an issue; and every return transaction in
\* the log has an earlier transaction of its pair, the latest of which is an
\* issue.
C20_BorrowedIffLastIsIssue ==
    /\ \A n \in DOMAIN users : \A t \in Titles :
           Has(users[n].v.borrowed, t)
               <=> \E i \in DOMAIN transactions :
                       LastIsIssue(transactions, i, Len(transactions) + 1,
                                   users[n].k, t)
    /\ \A n \in DOMAIN transactions :
           transactions[n].action = "return" =>
               \E i \in 1..(n - 1) :
                   LastIsIssue(transactions, i, n, transactions[n].user_id,
                               transactions[n].book_title)

\* A user was issued a title twice and returned it once: the log has more
\* issues than returns for the pair, its last entry for the pair is the
\* return, and the title is not in the borrowed map.
C20_Witness ==
    \E u \in UserIds, t \in Titles :
        /\ Has(users, u)
        /\ ~Has(Get(users, u).borrowed, t)
        /\ CountTx(transactions, u, t, "issue") = 2
        /\ CountTx(transactions, u, t, "return") = 1
        /\ LastTx(transactions).action = "return"

====
